---- MODULE Spec2Model ----
(***************************************************************************)
(* A model of the raymarching path tracer: the material-tagged distance    *)
(* maps of sdf.rs, the sphere tracer SdfMap::ray_intersection, the path    *)
(* integrator cast_ray and the row-parallel frame renderer of renderer.rs, *)
(* and the exporter of ppm.rs as main drives it.                           *)
(*                                                                         *)
(* Numbers.  An f32 is a record [nan, v]: either NaN or an integer count   *)
(* of grid units.  Lengths are counted in grid units of 0.0005 world units *)
(* (half of SURFACE_DIST), so that a distance strictly between 0 and       *)
(* SURFACE_DIST exists.  Unit vectors (directions, normals) have integer   *)
(* components in {-1, 0, 1}.  Colors are triples counted in thousandths.   *)
(* A Vec3 is modelled by its x and y components; the scenes of the model   *)
(* are built from planes whose normal is the x axis, which keeps every     *)
(* vector axis-aligned and every square root exact.                        *)
(***************************************************************************)
EXTENDS Integers, Sequences, FiniteSets, TLC

(***************************************************************************)
(* Program constants, in the units above.                                  *)
(***************************************************************************)
\* sdf.rs:3  SURFACE_DIST = 0.001  (2 grid units of 0.0005)
SURFACE_DIST == 2
\* sdf.rs:4  MAX_DIST = 30.0  (60000 grid units of 0.0005)
MAX_DIST == 60000
\* sdf.rs:5  MAX_STEPS = 1000
MAX_STEPS == 1000
\* renderer.rs:8  MAX_BOUNCES = 5
MAX_BOUNCES == 5

(***************************************************************************)
(* Bounds of the model.                                                    *)
(***************************************************************************)
\* the walls of the model scenes stand at x = -HalfGap and x = +HalfGap
HalfGap == 40
\* the period of the well-formed Repeat node of the model scenes
Period == 16
\* render: height, width and sample_count of the image, and the size of the
\* worker pool
Height == 3
Width == 2
SampleCount == 1
NThreads == 2

(***************************************************************************)
(* f32 arithmetic.                                                         *)
(***************************************************************************)
NaN == [nan |-> TRUE, v |-> 0]

F(n) == [nan |-> FALSE, v |-> n]

FAdd(a, b) == IF a.nan \/ b.nan THEN NaN ELSE F(a.v + b.v)

FSub(a, b) == IF a.nan \/ b.nan THEN NaN ELSE F(a.v - b.v)

FMul(a, b) == IF a.nan \/ b.nan THEN NaN ELSE F(a.v * b.v)

\* a comparison with NaN is false
FLt(a, b) == ~a.nan /\ ~b.nan /\ a.v < b.v

FGt(a, b) == ~a.nan /\ ~b.nan /\ a.v > b.v

\* a != b on f32: true when either side is NaN
FNe(a, b) == a.nan \/ b.nan \/ a.v # b.v

\* f32::min: when one argument is NaN the other is returned
FMin(a, b) ==
    IF a.nan THEN b
    ELSE IF b.nan THEN a
    ELSE IF a.v <= b.v THEN a ELSE b

(***************************************************************************)
(* Vec3 arithmetic (x and y components).                                   *)
(***************************************************************************)
Vec(x, y) == <<F(x), F(y)>>

VNaN == <<NaN, NaN>>

VAdd(u, w) == <<FAdd(u[1], w[1]), FAdd(u[2], w[2])>>

VSub(u, w) == <<FSub(u[1], w[1]), FSub(u[2], w[2])>>

\* f32 * Vec3
VScale(s, u) == <<FMul(s, u[1]), FMul(s, u[2])>>

VDot(u, w) == FAdd(FMul(u[1], w[1]), FMul(u[2], w[2]))

Sign(n) == IF n > 0 THEN 1 ELSE IF n < 0 THEN -1 ELSE 0

\* Vec3::normalize: v / |v|.  The zero vector gives 0/0 = NaN.  Only
\* axis-aligned vectors arise in the model; no arm covers another vector.
VNormalize(u) ==
    CASE u[1].nan \/ u[2].nan -> VNaN
      [] u[1].v = 0 /\ u[2].v = 0 -> VNaN
      [] u[1].v = 0 \/ u[2].v = 0 -> Vec(Sign(u[1].v), Sign(u[2].v))

\* the x and y components of Vec3::cross for two vectors of the x-y plane
\* (their z components are 0)
VCross(u, w) ==
    <<FSub(FMul(u[2], F(0)), FMul(F(0), w[2])),
      FSub(FMul(F(0), w[1]), FMul(u[1], F(0)))>>

(***************************************************************************)
(* Materials and colors (sdf.rs:7-11).                                     *)
(***************************************************************************)
Lambertian(c) == [kind |-> "Lambertian", color |-> c]

Emissive(c) == [kind |-> "Emissive", color |-> c]

\* Vec3::ONE and Vec3::ZERO as colors
ONE == <<1000, 1000, 1000>>

ZERO == <<0, 0, 0>>

\* color * color, componentwise, in thousandths
CMul(a, b) == [k \in 1..3 |-> (a[k] * b[k]) \div 1000]

(***************************************************************************)
(* The distance field algebra: trait Sdf (sdf.rs:18-219).                  *)
(***************************************************************************)
Plane(normal) == [type |-> "Plane", normal |-> normal]

Translation(sdf, offset) == [type |-> "Translation", sdf |-> sdf, offset |-> offset]

Repeat(sdf, period) == [type |-> "Repeat", sdf |-> sdf, period |-> period]

\* one component of p - period * (p / period + 0.5).floor(); a zero period
\* divides by zero and 0 * inf is NaN
RepeatComponent(p, period) ==
    IF p.nan \/ period = 0 THEN NaN
    ELSE F(p.v - period * ((2 * p.v + period) \div (2 * period)))

RECURSIVE SdfDist(_, _)
SdfDist(sdf, p) ==
    CASE sdf.type = "Plane" -> VDot(sdf.normal, p)
      [] sdf.type = "Translation" -> SdfDist(sdf.sdf, VSub(p, sdf.offset))
      [] sdf.type = "Repeat" ->
            SdfDist(sdf.sdf, <<RepeatComponent(p[1], sdf.period[1]),
                               RepeatComponent(p[2], sdf.period[2])>>)

(***************************************************************************)
(* The material-tagged map: trait SdfMap (sdf.rs:226-309).                 *)
(***************************************************************************)
SdfObject(sdf, material) == [type |-> "SdfObject", sdf |-> sdf, material |-> material]

Union(sdf1, sdf2) == [type |-> "Union", sdf1 |-> sdf1, sdf2 |-> sdf2]

DistInfo(distance, material) == [distance |-> distance, material |-> material]

RECURSIVE MapDist(_, _)
MapDist(m, p) ==
    IF m.type = "SdfObject" THEN SdfDist(m.sdf, p)
    ELSE FMin(MapDist(m.sdf1, p), MapDist(m.sdf2, p))

\* a Union::distinfo that keeps the pair with the larger distance
UnionPickFarther(distinfo1, distinfo2) ==
    IF FGt(distinfo1.distance, distinfo2.distance) THEN distinfo1 ELSE distinfo2

\* a Union::distinfo that compares with <=, the left operand winning a tie
UnionPickLeftOnTie(distinfo1, distinfo2) ==
    IF FLt(distinfo1.distance, distinfo2.distance)
       \/ (~distinfo1.distance.nan /\ distinfo1.distance = distinfo2.distance)
    THEN distinfo1
    ELSE distinfo2

\* Union::distinfo keeps distinfo1 when its distance is strictly smaller,
\* distinfo2 otherwise
UnionPick(distinfo1, distinfo2) ==
    IF FLt(distinfo1.distance, distinfo2.distance) THEN distinfo1 ELSE distinfo2

RECURSIVE MapDistinfo(_, _)
MapDistinfo(m, p) ==
    IF m.type = "SdfObject" THEN DistInfo(SdfDist(m.sdf, p), m.material)
    ELSE UnionPick(MapDistinfo(m.sdf1, p), MapDistinfo(m.sdf2, p))

\* SdfMap::normal: the normalized central difference of dist
MapNormal(m, p) ==
    LET dx == Vec(SURFACE_DIST, 0)
        dy == Vec(0, SURFACE_DIST)
        x == FSub(MapDist(m, VAdd(p, dx)), MapDist(m, VSub(p, dx)))
        y == FSub(MapDist(m, VAdd(p, dy)), MapDist(m, VSub(p, dy)))
    IN  VNormalize(<<x, y>>)

(***************************************************************************)
(* Sampling (sampling.rs).                                                 *)
(***************************************************************************)
\* rng.gen::<f32>() lies in [0, 1); the model draws 0 or 1/2, so that
\* 2.0 * rng.gen() - 1.0 is -1 or 0
Draws == {-1, 0}

\* uniform_disk: the draws (x, y) the rejection loop lets through
uniform_disk == {s \in Draws \X Draws : s[1] * s[1] + s[2] * s[2] <= 1}

\* f32::sqrt on the two values 1.0 - x*x - y*y takes for a sample of the model
Sqrt(n) == CASE n = 0 -> 0 [] n = 1 -> 1

\* cos_weighted_hemisphere(normal) for the disk sample s.  In the else arm
\* e1 = vec3(0, -normal.z, normal.y).normalize() with normal.z = 0: its x and
\* y components are 0 / |normal.y|.
cos_weighted_hemisphere(normal, s) ==
    LET x == s[1]
        y == s[2]
        z == Sqrt(1 - x * x - y * y)
        e1 == IF FNe(normal[1], F(0))
              THEN VNormalize(<<normal[2], FSub(F(0), normal[1])>>)
              ELSE IF normal[2].v = 0 THEN VNaN ELSE Vec(0, 0)
        e2 == VCross(e1, normal)
    IN  VAdd(VAdd(VScale(F(x), e1), VScale(F(y), e2)), VScale(F(z), normal))

(***************************************************************************)
(* The scenes of the model (scene authoring, as in scene1.rs / scene2.rs). *)
(***************************************************************************)
Grey == Lambertian(<<600, 600, 600>>)

Dark == Lambertian(<<250, 250, 250>>)

Lamp == Emissive(<<4000, 1200, 400>>)

\* a wall facing +x at x = -HalfGap, and one facing -x at x = +HalfGap
LeftWall(material) ==
    SdfObject(Translation(Plane(Vec(1, 0)), Vec(-HalfGap, 0)), material)

RightWall(material) ==
    SdfObject(Translation(Plane(Vec(-1, 0)), Vec(HalfGap, 0)), material)

\* a wall repeated with a period; the period 0 is the malformed scene whose
\* distances are NaN
Tiled(period, material) ==
    SdfObject(Repeat(Translation(Plane(Vec(1, 0)), Vec(-HalfGap, 0)),
                     <<period, period>>), material)

\* slabs repeated with a period, the slab of a cell being the part of the
\* cell at or below thickness - period / 2; near the upper end of a cell the
\* folded distance overestimates the distance to the slab of the next cell
Slabs(period, thickness, material) ==
    SdfObject(Repeat(Translation(Plane(Vec(1, 0)),
                                 Vec(thickness - period \div 2, 0)),
                     <<period, period>>), material)

Maps ==
    { Union(LeftWall(Grey), RightWall(Dark)),
      Union(LeftWall(Grey), RightWall(Lamp)),
      LeftWall(Grey),
      Tiled(0, Grey),
      Tiled(Period, Grey),
      Slabs(Period, Period \div 4, Grey) }

Origins == {Vec(0, 0), Vec(1 - HalfGap, 0), Vec(0 - HalfGap - 10, 0)}

Directions == {Vec(1, 0), Vec(-1, 0), Vec(0, 1)}

\* background_color of scene1.rs:9-15, with the bright patch around +x
background_color(d) ==
    IF FGt(FMul(F(1000), VDot(d, Vec(1, 0))), F(950))
    THEN <<15000, 12750, 11250>>
    ELSE <<200, 350, 500>>

\* a scene's background that is Color(0, 0, 0) in every direction
black_background(d) == ZERO

\* (scene.background_color)(direction), renderer.rs:40
SceneBackground(bg, d) ==
    IF bg = "black" THEN black_background(d) ELSE background_color(d)

\* a light of radiance (1, 1, 1)
White == Emissive(ONE)

\* the scenes: the maps above under the sky of scene1.rs, and a white light
\* and a grey wall against a black background
Scenes ==
    {[map |-> m, background |-> "sky"] : m \in Maps}
    \cup {[map |-> LeftWall(White), background |-> "black"],
          [map |-> LeftWall(Grey), background |-> "black"]}

(***************************************************************************)
(* State.                                                                  *)
(***************************************************************************)
VARIABLES
    map,        \* scene.map
    background, \* scene.background_color: "sky" or "black"
    origin,     \* cast_ray: origin
    direction,  \* cast_ray: direction
    acc,        \* cast_ray: acc, the accumulated throughput
    bounces,    \* cast_ray: bounces
    hit,        \* cast_ray: what ray_intersection returned, <<>> being None
    pc,         \* where the path is: "loop", "march", "match", "return"
    ri_acc,     \* ray_intersection: acc, the accumulated distance
    steps,      \* ray_intersection: steps
    position,   \* ray_intersection: position, the point last evaluated
    dist,       \* ray_intersection: dist, the distance last evaluated
    t_eval,     \* history: ri_acc before the last evaluation
    queries,    \* history: ray_intersection calls of this cast_ray call
    evals,      \* history: dist evaluations of this ray_intersection call
    albedos,    \* history: the albedos of the Lambertian hits of this path
    crossings,  \* history: where the ray of this ray_intersection call meets a solid
    point,      \* a map query: the point asked about
    reply,      \* a map query: <<>>, or <<[distinfo, dist]>> once answered
    mainpc,     \* main: "render", "export", "match", "done", "panicked"
    rowState,   \* render: per row i, "pending", "running" or "done"
    rowThread,  \* render: per row i, the worker thread its task runs on
    rng,        \* render: per row i, the generator `rng` is a handle of
    row,        \* render: per row i, the pixels its task has produced
    grid,       \* render: the Vec being collected, <<>> where no row is yet
    pixels,     \* main: pixels, the grid render returned
    finished,   \* history: the rows in the order their tasks finished
    writes,     \* history: per pixel, the tasks that wrote it, in order
    draws,      \* history: the random draws, [row, site, gen, thread]
    failure,    \* history: the I/O failure export_ppm met, "none" if none
    exportCalls,  \* history: calls of export_ppm
    exportResult, \* main: what export_ppm returned, "Ok" or "Err"
    printed     \* main: whether the error was printed

pathVars ==
    <<origin, direction, acc, bounces, hit, pc, ri_acc, steps, position,
      dist, t_eval, queries, evals, albedos, crossings>>

queryVars == <<point, reply>>

renderVars ==
    <<mainpc, rowState, rowThread, rng, row, grid, pixels, finished, writes,
      draws, failure, exportCalls, exportResult, printed>>

vars == <<map, background, pathVars, queryVars, renderVars>>

None == <<>>

Some(x) == <<x>>

HitInfo(p, material) == [position |-> p, material |-> material]

(***************************************************************************)
(* cast_ray (renderer.rs:16-49) around ray_intersection (sdf.rs:250-271).  *)
(***************************************************************************)
InitPath ==
    /\ origin \in Origins
    /\ direction \in Directions
    /\ acc = ONE
    /\ bounces = 0
    /\ hit = None
    /\ pc = "loop"
    /\ ri_acc = F(0)
    /\ steps = 0
    /\ position = VNaN
    /\ dist = NaN
    /\ t_eval = F(0)
    /\ queries = 0
    /\ evals = 0
    /\ albedos = <<>>
    /\ crossings = {}

\* renderer.rs:21
BudgetExhausted(b) == b > MAX_BOUNCES

\* renderer.rs:21-24: the bounce budget is spent, the path is black
CastRayExhausted ==
    /\ pc = "loop"
    /\ BudgetExhausted(bounces)
    /\ acc' = ZERO
    /\ pc' = "return"
    /\ UNCHANGED <<map, background, origin, direction, bounces, hit, ri_acc, steps,
                   position, dist, t_eval, queries, evals>>
    /\ UNCHANGED <<albedos, crossings>>
    /\ UNCHANGED <<queryVars, renderVars>>

\* the point p is on or inside a solid of the map m
Inside(m, p) == ~MapDist(m, p).nan /\ MapDist(m, p).v <= 0

\* the ray from o along d meets a solid at the parameter t
CrossesAt(m, o, d, t) == Inside(m, VAdd(o, VScale(F(t), d)))

\* the parameters at which the ray from o along d meets a solid, as far as
\* the walls of the scenes reach
Crossings(m, o, d) == {t \in 0..(4 * HalfGap) : CrossesAt(m, o, d, t)}

\* renderer.rs:26 and sdf.rs:251-254: the call of ray_intersection
CastRayIntersect ==
    /\ pc = "loop"
    /\ ~BudgetExhausted(bounces)
    /\ ri_acc' = F(0)
    /\ steps' = 0
    /\ t_eval' = F(0)
    /\ queries' = queries + 1
    /\ evals' = 0
    /\ pc' = "march"
    /\ UNCHANGED <<map, background, origin, direction, acc, bounces, hit, position, dist>>
    /\ crossings' = Crossings(map, origin, direction)
    /\ UNCHANGED albedos
    /\ UNCHANGED <<queryVars, renderVars>>

\* a hit reported at the point the distance was evaluated at
HitAtEvaluatedPoint(m, o, d, a, evaluated) ==
    Some(HitInfo(evaluated, MapDistinfo(m, evaluated).material))

\* sdf.rs:262-265: the hit returned, a being acc after acc += dist
Hit(m, o, d, a, evaluated) ==
    Some(HitInfo(VAdd(o, VScale(a, d)),
                 MapDistinfo(m, VAdd(o, VScale(a, d))).material))

\* the end of get_intersection (main.rs:131-134), which reports a hit at the
\* last point whatever ended the loop
MissAsHit(m, o, d, a) ==
    Some(HitInfo(VAdd(o, VScale(a, d)),
                 MapDistinfo(m, VAdd(o, VScale(a, d))).material))

\* sdf.rs:268
Miss(m, o, d, a) == None

\* sdf.rs:267
Escaped(a, s) == FGt(a, F(MAX_DIST)) \/ s > MAX_STEPS

\* a march that advances by twice the distance evaluated
AdvanceTwice(a, d) == FAdd(a, FAdd(d, d))

\* sdf.rs:259: acc += dist
Advance(a, d) == FAdd(a, d)

\* sdf.rs:257-260: one iteration up to the tests
March ==
    /\ pc = "march"
    /\ position' = VAdd(origin, VScale(ri_acc, direction))
    /\ dist' = MapDist(map, position')
    /\ ri_acc' = Advance(ri_acc, dist')
    /\ steps' = steps + 1
    /\ t_eval' = ri_acc
    /\ evals' = evals + 1
    /\ UNCHANGED <<map, background, origin, direction, acc, bounces, queries>>
    /\ UNCHANGED <<albedos, crossings>>
    /\ UNCHANGED <<queryVars, renderVars>>

\* sdf.rs:261-266
RayIntersectionHit ==
    /\ March
    /\ FLt(dist', F(SURFACE_DIST))
    /\ hit' = Hit(map, origin, direction, ri_acc', position')
    /\ pc' = "match"

\* sdf.rs:267-269
RayIntersectionMiss ==
    /\ March
    /\ ~FLt(dist', F(SURFACE_DIST))
    /\ Escaped(ri_acc', steps')
    /\ hit' = Miss(map, origin, direction, ri_acc')
    /\ pc' = "match"

\* sdf.rs:256-270: neither test fires, the loop goes round
RayIntersectionContinue ==
    /\ March
    /\ ~FLt(dist', F(SURFACE_DIST))
    /\ ~Escaped(ri_acc', steps')
    /\ pc' = "march"
    /\ UNCHANGED hit

\* a light that returns its radiance whatever the throughput
EmitIgnoringThroughput(color, a) == color

\* renderer.rs:35: the color returned at a light
EmitColor(color, a) == CMul(color, a)

\* renderer.rs:40: the color returned at a miss, d being the current ray
MissColor(bg, d, a) == CMul(SceneBackground(bg, d), a)

\* a surface that adds its albedo to the throughput
LambertAdd(color, a) == [k \in 1..3 |-> color[k] + a[k]]

\* renderer.rs:29: the throughput after a Lambertian hit
LambertColor(color, a) == CMul(color, a)

\* renderer.rs:28-33 and 45
ShadeLambertian ==
    /\ pc = "match"
    /\ hit # None
    /\ hit[1].material.kind = "Lambertian"
    /\ \E s \in uniform_disk :
          LET normal == MapNormal(map, hit[1].position)
          IN  /\ origin' = VAdd(hit[1].position,
                                VScale(F(2 * SURFACE_DIST), normal))
              /\ direction' = cos_weighted_hemisphere(normal, s)
    /\ acc' = LambertColor(hit[1].material.color, acc)
    /\ albedos' = Append(albedos, hit[1].material.color)
    /\ bounces' = bounces + 1
    /\ pc' = "loop"
    /\ UNCHANGED <<map, background, hit, ri_acc, steps, position, dist, t_eval, queries,
                   evals>>
    /\ UNCHANGED crossings
    /\ UNCHANGED <<queryVars, renderVars>>

\* renderer.rs:34-37
ShadeEmissive ==
    /\ pc = "match"
    /\ hit # None
    /\ hit[1].material.kind = "Emissive"
    /\ acc' = EmitColor(hit[1].material.color, acc)
    /\ pc' = "return"
    /\ UNCHANGED <<map, background, origin, direction, bounces, hit, ri_acc, steps,
                   position, dist, t_eval, queries, evals>>
    /\ UNCHANGED <<albedos, crossings>>
    /\ UNCHANGED <<queryVars, renderVars>>

\* renderer.rs:39-42
ShadeMiss ==
    /\ pc = "match"
    /\ hit = None
    /\ acc' = MissColor(background, direction, acc)
    /\ pc' = "return"
    /\ UNCHANGED <<map, background, origin, direction, bounces, hit, ri_acc, steps,
                   position, dist, t_eval, queries, evals>>
    /\ UNCHANGED <<albedos, crossings>>
    /\ UNCHANGED <<queryVars, renderVars>>

\* no map query is under way
QueryIdle ==
    /\ point = VNaN
    /\ reply = <<>>

\* no image is being rendered
RenderIdle ==
    /\ mainpc = "off"
    /\ rowState = <<>>
    /\ rowThread = <<>>
    /\ rng = <<>>
    /\ row = <<>>
    /\ grid = <<>>
    /\ pixels = <<>>
    /\ finished = <<>>
    /\ writes = <<>>
    /\ draws = {}
    /\ failure = "none"
    /\ exportCalls = 0
    /\ exportResult = "none"
    /\ printed = FALSE

\* no path is being traced
PathIdle ==
    /\ origin = VNaN
    /\ direction = VNaN
    /\ acc = ONE
    /\ bounces = 0
    /\ hit = None
    /\ pc = "off"
    /\ ri_acc = F(0)
    /\ steps = 0
    /\ position = VNaN
    /\ dist = NaN
    /\ t_eval = F(0)
    /\ queries = 0
    /\ evals = 0
    /\ albedos = <<>>
    /\ crossings = {}

Init ==
    /\ \E s \in Scenes :
          /\ map = s.map
          /\ background = s.background
    /\ InitPath
    /\ QueryIdle
    /\ RenderIdle

Next ==
    \/ CastRayExhausted
    \/ CastRayIntersect
    \/ RayIntersectionHit
    \/ RayIntersectionMiss
    \/ RayIntersectionContinue
    \/ ShadeLambertian
    \/ ShadeEmissive
    \/ ShadeMiss

\* one path: cast_ray for one camera ray
Spec == Init /\ [][Next]_vars

(***************************************************************************)
(* Queries of a map: dist and distinfo at a point (sdf.rs:274-309).        *)
(***************************************************************************)
\* a wall facing +x at x = c
Wall(c, material) ==
    SdfObject(Translation(Plane(Vec(1, 0)), Vec(c, 0)), material)

\* unions of two and three objects, nested on either side, with children
\* that coincide, and with the malformed child whose distance is NaN
UnionMaps ==
    { Union(LeftWall(Grey), RightWall(Dark)),
      Union(RightWall(Dark), LeftWall(Grey)),
      Union(LeftWall(Grey), LeftWall(Lamp)),
      Union(Union(LeftWall(Grey), RightWall(Dark)), Wall(0, Lamp)),
      Union(LeftWall(Grey), Union(RightWall(Dark), Wall(0, Lamp))),
      Union(Union(Wall(0, Grey), Wall(0, Dark)), Wall(0, Lamp)),
      Union(LeftWall(Grey), Tiled(0, Lamp)),
      Union(Tiled(0, Lamp), LeftWall(Grey)),
      Union(Tiled(Period, Dark), Wall(0, Lamp)) }

Points ==
    {Vec(x, y) : x \in {0 - HalfGap - 3, 0 - HalfGap, -1, 0, 1, 5, HalfGap},
                 y \in {0, 7}}

InitQuery ==
    /\ map \in UnionMaps
    /\ background = "sky"
    /\ point \in Points
    /\ reply = <<>>
    /\ PathIdle
    /\ RenderIdle

\* the caller asks for distinfo(point) and dist(point)
MapQuery ==
    /\ reply = <<>>
    /\ reply' = <<[distinfo |-> MapDistinfo(map, point),
                  dist |-> MapDist(map, point)]>>
    /\ UNCHANGED <<map, background, point, pathVars, renderVars>>

NextQuery == MapQuery

SpecMap == InitQuery /\ [][NextQuery]_vars

(***************************************************************************)
(* render (renderer.rs:51-74), and main with export_ppm (main.rs:282-288,  *)
(* ppm.rs:11-36).                                                          *)
(***************************************************************************)
Rows == 0..(Height - 1)

Cols == 0..(Width - 1)

Threads == 1..NThreads

\* one generator shared by every thread of the process
SharedRng(t) == 1

\* rand::thread_rng(): the generator local to the calling thread
thread_rng(t) == t

\* renderer.rs:58-69: the pixel of row i, column j
Pixel(i, j) == [i |-> i, j |-> j]

\* a collect() that pushes the rows in the order their tasks finish
CollectInCompletionOrder(g, i, r) ==
    LET k == CHOOSE k \in 1..Len(g) :
                 g[k] = <<>> /\ \A m \in 1..(k - 1) : g[m] # <<>>
    IN  [g EXCEPT ![k] = r]

\* renderer.rs:73: collect() puts the row of index i at index i of the Vec
Collect(g, i, r) == [g EXCEPT ![i + 1] = r]

\* a collect() that returns as soon as one row task has finished
JoinedEarly == \E i \in Rows : rowState[i] = "done"

\* renderer.rs:53 and 73: collect() returns when every row task has finished
Joined == \A i \in Rows : rowState[i] = "done"

InitRender ==
    /\ map \in {Union(LeftWall(Grey), RightWall(Lamp))}
    /\ background = "sky"
    /\ mainpc = "render"
    /\ rowState = [i \in Rows |-> "pending"]
    /\ rowThread = [i \in Rows |-> 0]
    /\ rng = [i \in Rows |-> 0]
    /\ row = [i \in Rows |-> <<>>]
    /\ grid = [k \in 1..Height |-> <<>>]
    /\ pixels = <<>>
    /\ finished = <<>>
    /\ writes = [i \in Rows |-> [j \in Cols |-> <<>>]]
    /\ draws = {}
    /\ failure = "none"
    /\ exportCalls = 0
    /\ exportResult = "none"
    /\ printed = FALSE
    /\ PathIdle
    /\ QueryIdle

\* renderer.rs:54-55: an idle worker thread takes the task of row i
RowStart(t, i) ==
    /\ mainpc = "render"
    /\ rowState[i] = "pending"
    /\ \A k \in Rows : rowState[k] = "running" => rowThread[k] # t
    /\ rowState' = [rowState EXCEPT ![i] = "running"]
    /\ rowThread' = [rowThread EXCEPT ![i] = t]
    /\ rng' = [rng EXCEPT ![i] = thread_rng(t)]
    /\ UNCHANGED <<row, grid, pixels, finished, writes, draws, mainpc, failure,
                   exportCalls, exportResult, printed>>
    /\ UNCHANGED <<map, background, pathVars, queryVars>>

\* the draws of one sample of row i: the two jitters from rng
\* (renderer.rs:61, 63), uniform_disk in Camera::get_ray (camera.rs:38), and
\* uniform_disk in cos_weighted_hemisphere (sampling.rs:37) when cast_ray
\* met a Lambertian surface
SampleDraws(i, bounced) ==
    LET t == rowThread[i]
    IN  {[row |-> i, site |-> "jitter", gen |-> rng[i], thread |-> t],
         [row |-> i, site |-> "lens", gen |-> thread_rng(t), thread |-> t]}
        \cup (IF bounced
              THEN {[row |-> i, site |-> "bounce", gen |-> thread_rng(t),
                     thread |-> t]}
              ELSE {})

\* renderer.rs:57-70: the task of row i produces its next pixel from
\* sample_count samples
RowPixel(i) ==
    /\ rowState[i] = "running"
    /\ Len(row[i]) < Width
    /\ LET j == Len(row[i])
       IN  /\ row' = [row EXCEPT ![i] = Append(@, Pixel(i, j))]
           /\ writes' = [writes EXCEPT ![i][j] = Append(@, i)]
    /\ \E bounced \in [1..SampleCount -> BOOLEAN] :
          draws' = draws \cup
                   UNION {SampleDraws(i, bounced[k]) : k \in 1..SampleCount}
    /\ UNCHANGED <<rowState, rowThread, rng, grid, pixels, finished, mainpc,
                   failure, exportCalls, exportResult, printed>>
    /\ UNCHANGED <<map, background, pathVars, queryVars>>

\* renderer.rs:71-73: the row is complete and is collected
RowFinish(i) ==
    /\ rowState[i] = "running"
    /\ Len(row[i]) = Width
    /\ grid' = Collect(grid, i, row[i])
    /\ rowState' = [rowState EXCEPT ![i] = "done"]
    /\ finished' = Append(finished, i)
    /\ UNCHANGED <<rowThread, rng, row, pixels, writes, draws, mainpc,
                   failure, exportCalls, exportResult, printed>>
    /\ UNCHANGED <<map, background, pathVars, queryVars>>

\* renderer.rs:73 and main.rs:283: render returns the collected grid
RenderReturn ==
    /\ mainpc = "render"
    /\ Joined
    /\ pixels' = grid
    /\ mainpc' = "export"
    /\ UNCHANGED <<rowState, rowThread, rng, row, grid, finished, writes,
                   draws, failure, exportCalls, exportResult, printed>>
    /\ UNCHANGED <<map, background, pathVars, queryVars>>

\* ppm.rs:17: File::create(path).unwrap() panics when the file cannot be
\* created
ExportPpmCreateFails ==
    /\ mainpc = "export"
    /\ failure' = "create"
    /\ exportCalls' = exportCalls + 1
    /\ mainpc' = "panicked"
    /\ UNCHANGED <<rowState, rowThread, rng, row, grid, pixels, finished,
                   writes, draws, exportResult, printed>>
    /\ UNCHANGED <<map, background, pathVars, queryVars>>

\* ppm.rs:20-35: a failed writeln! or flush is returned as Err
ExportPpmWriteFails ==
    /\ mainpc = "export"
    /\ failure' \in {"header", "pixel", "flush"}
    /\ exportCalls' = exportCalls + 1
    /\ exportResult' = "Err"
    /\ mainpc' = "match"
    /\ UNCHANGED <<rowState, rowThread, rng, row, grid, pixels, finished,
                   writes, draws, printed>>
    /\ UNCHANGED <<map, background, pathVars, queryVars>>

\* ppm.rs:11-36: nothing fails
ExportPpmOk ==
    /\ mainpc = "export"
    /\ exportCalls' = exportCalls + 1
    /\ exportResult' = "Ok"
    /\ mainpc' = "match"
    /\ UNCHANGED <<rowState, rowThread, rng, row, grid, pixels, finished,
                   writes, draws, failure, printed>>
    /\ UNCHANGED <<map, background, pathVars, queryVars>>

\* main.rs:284-288: main prints the error, if any, and the rendering time
MainMatch ==
    /\ mainpc = "match"
    /\ printed' = (exportResult = "Err")
    /\ mainpc' = "done"
    /\ UNCHANGED <<rowState, rowThread, rng, row, grid, pixels, finished,
                   writes, draws, failure, exportCalls, exportResult>>
    /\ UNCHANGED <<map, background, pathVars, queryVars>>

NextRender ==
    \/ \E t \in Threads, i \in Rows : RowStart(t, i)
    \/ \E i \in Rows : RowPixel(i)
    \/ \E i \in Rows : RowFinish(i)
    \/ RenderReturn
    \/ ExportPpmCreateFails
    \/ ExportPpmWriteFails
    \/ ExportPpmOk
    \/ MainMatch

SpecRender == InitRender /\ [][NextRender]_vars

(***************************************************************************)
(* The claims.                                                             *)
(***************************************************************************)

\* C1: one call of cast_ray performs at most MAX_BOUNCES ray_intersection
\* queries.
C1_AtMostMaxBouncesQueries == queries <= MAX_BOUNCES

\* C2, as stated: a hit is returned at the very point the distance was
\* evaluated at and found below SURFACE_DIST, with the material distinfo
\* reports at that point.
C2_HitAtTheEvaluatedPoint ==
    (pc = "match" /\ hit # None) =>
        /\ hit[1].position = position
        /\ hit[1].material = MapDistinfo(map, position).material

\* C2, amended: the distance d found below SURFACE_DIST was evaluated at
\* origin + t * direction, the hit is returned one step further, at
\* origin + (t + d) * direction, and its material is the one distinfo reports
\* at the returned position.
C2_HitOneStepPastTheEvaluatedPoint ==
    (pc = "match" /\ hit # None) =>
        /\ position = VAdd(origin, VScale(t_eval, direction))
        /\ dist = MapDist(map, position)
        /\ FLt(dist, F(SURFACE_DIST))
        /\ hit[1].position =
              VAdd(origin, VScale(FAdd(t_eval, dist), direction))
        /\ hit[1].material = MapDistinfo(map, hit[1].position).material

\* a hit whose distance was not 0, so that the two points differ
C2_Witness ==
    /\ pc = "match"
    /\ hit # None
    /\ dist.v # 0
    /\ hit[1].position # position

\* C3: ray_intersection makes at most MAX_STEPS evaluations of the distance
\* function per call.
C3_AtMostMaxStepsEvaluations == evals <= MAX_STEPS

\* C4: when no evaluated distance is below SURFACE_DIST, ray_intersection
\* returns None, and it does so at the first iteration after which the
\* accumulated distance exceeds MAX_DIST or the steps exceed MAX_STEPS; a
\* hit is returned only for a distance below SURFACE_DIST.
C4_NoHitWithoutSurface ==
    /\ (pc = "match" /\ ~FLt(dist, F(SURFACE_DIST))) =>
          /\ hit = None
          /\ FGt(ri_acc, F(MAX_DIST)) \/ steps > MAX_STEPS
    /\ (pc = "match" /\ hit # None) => FLt(dist, F(SURFACE_DIST))
    /\ (pc = "march" /\ steps > 0) =>
          /\ ~FLt(dist, F(SURFACE_DIST))
          /\ ~FGt(ri_acc, F(MAX_DIST))
          /\ steps <= MAX_STEPS

\* a ray that escaped beyond MAX_DIST after several iterations
C4_Witness ==
    /\ pc = "match"
    /\ hit = None
    /\ steps > 1
    /\ FGt(ri_acc, F(MAX_DIST))

\* C5: every I/O failure of export_ppm, the failure to create the file
\* included, comes back as an Err that main prints; the process is not
\* aborted and the rendered grid is unchanged.
C5_IoFailureReturnedAsErr ==
    (failure # "none") =>
        /\ mainpc # "panicked"
        /\ exportResult = "Err"
        /\ (mainpc = "done" => printed)
        /\ pixels = grid

\* C6: every pixel (i, j) is written exactly once, by the task of row i only,
\* and the grid render returns has height rows of width pixels with row i at
\* index i, in whatever order the row tasks ran and finished.
C6_EachPixelOnceRowsInPlace ==
    /\ \A i \in Rows, j \in Cols :
          /\ Len(writes[i][j]) <= 1
          /\ \A k \in 1..Len(writes[i][j]) : writes[i][j][k] = i
    /\ (mainpc \in {"export", "match", "done", "panicked"}) =>
          /\ Len(pixels) = Height
          /\ \A i \in Rows :
                /\ Len(pixels[i + 1]) = Width
                /\ \A j \in Cols :
                      /\ pixels[i + 1][j + 1] = Pixel(i, j)
                      /\ Len(writes[i][j]) = 1

\* render has returned although row 0 was not the first to finish
C6_Witness ==
    /\ mainpc = "export"
    /\ Len(finished) = Height
    /\ finished[1] # 0

\* C7: export_ppm is invoked only after every row task has finished and no
\* row is missing, and at most once per rendered grid.
C7_ExportAfterEveryRow ==
    /\ exportCalls <= 1
    /\ (mainpc = "export" \/ exportCalls > 0) =>
          /\ \A i \in Rows : rowState[i] = "done"
          /\ Len(pixels) = Height
          /\ \A k \in 1..Height : Len(pixels[k]) = Width

\* export_ppm has been invoked on a grid whose rows were computed by
\* different threads
C7_Witness ==
    /\ exportCalls = 1
    /\ \E i, k \in Rows : rowThread[i] # rowThread[k]

\* C8, as stated: no generator is drawn from by two different row tasks,
\* and all the draws of a row come from one generator.
C8_GeneratorPerRowTask ==
    \A d1, d2 \in draws :
        /\ d1.gen = d2.gen => d1.row = d2.row
        /\ d1.row = d2.row => d1.gen = d2.gen

\* C8, amended: the generator is private to a worker thread.  No generator
\* is drawn from by two threads, so two row tasks that run at the same time
\* draw from different generators, and all the draws of a row (jitter, lens,
\* bounce) come from the generator of the thread that runs the row.
C8_GeneratorPerWorkerThread ==
    /\ \A d1, d2 \in draws :
          /\ d1.gen = d2.gen => d1.thread = d2.thread
          /\ d1.row = d2.row => d1.gen = d2.gen
    /\ \A d \in draws : d.thread = rowThread[d.row]
    /\ \A i, k \in Rows :
          (i # k /\ rowState[i] = "running" /\ rowState[k] = "running")
              => rng[i] # rng[k]

\* a thread ran two rows one after the other, both drawing from its
\* generator, while another thread ran a third row with its own
C8_Witness ==
    \E d1, d2, d3 \in draws :
        /\ d1.row # d2.row
        /\ d1.gen = d2.gen
        /\ d1.site = "jitter"
        /\ d2.site = "bounce"
        /\ d3.site = "lens"
        /\ d3.gen # d1.gen

\* every leaf of the map m reports a distance that is a number at q
RECURSIVE LeavesReal(_, _)
LeavesReal(m, q) ==
    IF m.type = "SdfObject" THEN ~SdfDist(m.sdf, q).nan
    ELSE LeavesReal(m.sdf1, q) /\ LeavesReal(m.sdf2, q)

\* the (distance, material) pairs of the leaves of the map m at q
RECURSIVE LeafPairs(_, _)
LeafPairs(m, q) ==
    IF m.type = "SdfObject" THEN {DistInfo(SdfDist(m.sdf, q), m.material)}
    ELSE LeafPairs(m.sdf1, q) \cup LeafPairs(m.sdf2, q)

\* what C9 says of the answer r of the union m at q
NearestWins(m, q, r) ==
    /\ ~r.dist.nan
    /\ r.distinfo.distance = r.dist
    /\ r.dist = FMin(MapDist(m.sdf1, q), MapDist(m.sdf2, q))
    /\ FLt(MapDist(m.sdf1, q), MapDist(m.sdf2, q))
          => r.distinfo = MapDistinfo(m.sdf1, q)
    /\ FLt(MapDist(m.sdf2, q), MapDist(m.sdf1, q))
          => r.distinfo = MapDistinfo(m.sdf2, q)
    /\ r.distinfo \in LeafPairs(m, q)
    /\ \A l \in LeafPairs(m, q) : ~FLt(l.distance, r.distinfo.distance)

\* C9, as stated: at every point, distinfo of a union returns the pair of
\* the child with the smaller distance, and its distance equals dist, the
\* minimum of the children's distances, to any depth of nesting.
C9_NearestChildWins ==
    (reply # <<>>) => NearestWins(map, point, reply[1])

\* C9, amended: the same at every point where no leaf of the union reports
\* a NaN distance.
C9_NearestChildWinsWhereReal ==
    (reply # <<>> /\ LeavesReal(map, point)) =>
        NearestWins(map, point, reply[1])

\* a nested union answered with the pair of its second child
C9_Witness ==
    /\ reply # <<>>
    /\ LeavesReal(map, point)
    /\ map.sdf2.type = "Union"
    /\ FLt(MapDist(map.sdf2, point), MapDist(map.sdf1, point))
    /\ reply[1].distinfo = MapDistinfo(map.sdf2, point)

\* the two children of the union m report equal distances at q
Tie(m, q) ==
    /\ ~MapDistinfo(m.sdf1, q).distance.nan
    /\ MapDistinfo(m.sdf1, q).distance = MapDistinfo(m.sdf2, q).distance

\* C10, as stated: on a tie distinfo returns the material of the first
\* child, sdf1.
C10_TieGoesToFirstChild ==
    (reply # <<>> /\ Tie(map, point)) =>
        reply[1].distinfo.material = MapDistinfo(map.sdf1, point).material

\* C10, amended: on a tie distinfo returns the pair, hence the material, of
\* the second child, sdf2.
C10_TieGoesToSecondChild ==
    (reply # <<>> /\ Tie(map, point)) =>
        reply[1].distinfo = MapDistinfo(map.sdf2, point)

\* a tie between children of different materials
C10_Witness ==
    /\ reply # <<>>
    /\ Tie(map, point)
    /\ MapDistinfo(map.sdf1, point).material
          # MapDistinfo(map.sdf2, point).material

\* the product of the colors of the sequence cs, multiplied in path order
RECURSIVE Throughput(_)
Throughput(cs) ==
    IF cs = <<>> THEN ONE ELSE CMul(cs[Len(cs)], Throughput(SubSeq(cs, 1, Len(cs) - 1)))

\* C11: a path ends at its first Emissive hit or first miss; no intersection
\* query follows, so the queries are the Lambertian hits before it plus one;
\* the color returned is throughput * radiance at the light and
\* throughput * background(direction) at the miss, throughput being the
\* product of the albedos of the Lambertian hits before it and direction the
\* direction of the ray that missed.  A first-hit light of radiance
\* (1, 1, 1) returns exactly (1, 1, 1), a first-ray miss against a black
\* background exactly (0, 0, 0).
C11_PathEndsAtLightOrMiss ==
    /\ (pc = "return" /\ hit # None /\ hit[1].material.kind = "Emissive") =>
          /\ acc = CMul(hit[1].material.color, Throughput(albedos))
          /\ queries = Len(albedos) + 1
          /\ (albedos = <<>> /\ hit[1].material.color = ONE) => acc = ONE
    /\ (pc = "return" /\ hit = None) =>
          /\ acc = CMul(SceneBackground(background, direction),
                        Throughput(albedos))
          /\ queries = Len(albedos) + 1
          /\ (albedos = <<>> /\ background = "black") => acc = ZERO
    /\ (pc = "return") => ~ENABLED Next

\* a light reached after a Lambertian bounce
C11_Witness ==
    /\ pc = "return"
    /\ hit # None
    /\ hit[1].material.kind = "Emissive"
    /\ albedos # <<>>

\* every component of the color c is in [0, 1]
InUnit(c) == \A k \in 1..3 : c[k] >= 0 /\ c[k] <= 1000

\* the path has hit only Lambertian surfaces, of albedo within [0, 1]: no
\* light and no miss has been folded into acc
OnlyLambertianHits ==
    /\ pc \in {"loop", "march", "match", "return"}
    /\ ~(pc = "return" /\ (hit = None \/ hit[1].material.kind = "Emissive"))
    /\ \A k \in 1..Len(albedos) : InUnit(albedos[k])

\* C12: along a path that hits only Lambertian surfaces of albedo within
\* [0, 1], each component of acc starts at 1, never increases from one step
\* of cast_ray to the next, hence from one bounce to the next, and is within
\* [0, 1] in every state of the loop.
C12_ThroughputNonIncreasing ==
    /\ []((pc = "loop" /\ bounces = 0) => acc = ONE)
    /\ [](OnlyLambertianHits => InUnit(acc))
    /\ [][(OnlyLambertianHits /\ OnlyLambertianHits') =>
             \A k \in 1..3 : acc'[k] <= acc[k]]_vars

\* the throughput after two Lambertian bounces, lower than either albedo
C12_Witness ==
    /\ pc = "loop"
    /\ bounces = 2
    /\ Len(albedos) = 2
    /\ acc[1] < albedos[1][1]
    /\ acc[1] < albedos[2][1]
    /\ acc[1] > 0

\* the absolute value of the integer n
Abs(n) == IF n < 0 THEN 0 - n ELSE n

\* the window of coordinates over which the geometry of a map is examined
XWindow == (0 - 4 * HalfGap)..(4 * HalfGap)

\* dist of the map m is a true lower bound: at every point it is a number no
\* greater than the distance to any point of a solid.  The solids of the
\* scenes are bounded by planes of normal x, so the points (x, 0) stand
\* for all.
TrueLowerBound(m) ==
    \A x \in XWindow :
        LET d == MapDist(m, Vec(x, 0))
        IN  /\ ~d.nan
            /\ \A x2 \in XWindow : Inside(m, Vec(x2, 0)) => d.v <= Abs(x2 - x)

LowerBoundMaps == {s.map : s \in {sc \in Scenes : TrueLowerBound(sc.map)}}

\* C13: with a distance function that is a true lower bound and the ray
\* origin outside every solid, in every iteration of ray_intersection the
\* accumulated distance is not beyond the first surface crossing along the
\* ray, nor is the position of a hit it returns.
C13_NeverOversteps ==
    (/\ pc \in {"march", "match"}
     /\ map \in LowerBoundMaps
     /\ ~Inside(map, origin)) =>
        /\ ~ri_acc.nan
        /\ \A t \in crossings : ri_acc.v <= t
        /\ (pc = "match" /\ hit # None) =>
              /\ hit[1].position = VAdd(origin, VScale(ri_acc, direction))
              /\ ~FLt(MapDist(map, hit[1].position), F(0))

\* a hit returned on the far wall after several iterations, exactly at the
\* first surface crossing
C13_Witness ==
    /\ pc = "match"
    /\ hit # None
    /\ map \in LowerBoundMaps
    /\ ~Inside(map, origin)
    /\ steps >= 3
    /\ ri_acc.v > HalfGap
    /\ ri_acc.v \in crossings
    /\ \A t \in crossings : ri_acc.v <= t

====
